---- MODULE Spec2Model ----
(***************************************************************************)
(* Model of CompanyExtractor (src/main.py): the date normaliser            *)
(* _normalize_date, the paragraph pipeline process_text_direct and the two *)
(* CSV export operations save_to_csv and _save_companies_to_csv.           *)
(*                                                                         *)
(* Python strings are modelled as sequences of one-character strings, so   *)
(* that the regular expressions of the source are computed and not         *)
(* assumed.  A loosely typed Python value is a record [k, v]: k is its     *)
(* type ("str", "list", "none", "num", "dict", or "missing" for an absent  *)
(* key) and v its characters (str), its items (list), its keys (dict) or   *)
(* its digits (num).                                                       *)
(***************************************************************************)
EXTENDS Integers, Sequences, FiniteSets, TLC

VARIABLES
    \* ---- process_text_direct ----
    text,           \* the argument of process_text_direct
    pc,             \* position of the run: start, loop, handle, returned, raised
    paragraphs,     \* the local list `paragraphs`
    idx,            \* position of the for loop in `paragraphs`
    calls,          \* arguments of extraction_chain.invoke so far, in order
    results,        \* outcomes of extraction_chain.invoke so far, in order
    all_companies,  \* the local list `all_companies`
    errlog,         \* exception types printed by the except clause
    csvfile,        \* content of company_info.csv (sequence of rows)
    ret,            \* value returned to the caller
    exc,            \* exception raised to the caller
    \* ---- _normalize_date called on its own ----
    dpc, date_str, out1, out2,
    \* ---- the export operations called on their own ----
    xop, xdata, xio, xstatus, xfile

pvars == <<text, pc, paragraphs, idx, calls, results, all_companies, errlog,
           csvfile, ret, exc>>
dvars == <<dpc, date_str, out1, out2>>
xvars == <<xop, xdata, xio, xstatus, xfile>>
vars == <<pvars, dvars, xvars>>

(***************************************************************************)
(* Bounds of the model.                                                    *)
(***************************************************************************)
MaxSegments == 3     \* segments concatenated into an input of _normalize_date
MaxTextLen == 5      \* characters of the text given to process_text_direct
MaxCompanies == 2    \* elements of the `companies` sequences of one run, in all

(***************************************************************************)
(* Characters.                                                             *)
(***************************************************************************)
Digit == {"0", "1", "2", "3", "4", "5", "6", "7", "8", "9"}

UpperCase == <<"A","B","C","D","E","F","G","H","I","J","K","L","M",
               "N","O","P","Q","R","S","T","U","V","W","X","Y","Z">>
LowerCase == <<"a","b","c","d","e","f","g","h","i","j","k","l","m",
               "n","o","p","q","r","s","t","u","v","w","x","y","z">>

Range(f) == {f[i] : i \in DOMAIN f}

UpperLetters == Range(UpperCase)
WordChars == Digit \cup Range(UpperCase) \cup Range(LowerCase) \cup {"_"}

\* str.lower of one character (re.IGNORECASE compares case-folded characters)
Lower(c) ==
    IF c \in UpperLetters
    THEN LowerCase[CHOOSE i \in DOMAIN UpperCase : UpperCase[i] = c]
    ELSE c

\* \w of the re module
IsWordChar(c) == c \in WordChars

\* the characters str.strip() removes
IsSpace(c) == c \in {" ", "\n", "\t", "\r"}

IsDigit(c) == c \in Digit

(***************************************************************************)
(* _normalize_date, line 104: re.sub(r'\b(in|on|...)\b', '', date_str,     *)
(* flags=re.IGNORECASE).strip()                                            *)
(***************************************************************************)
Fillers == <<
    <<"i","n">>,
    <<"o","n">>,
    <<"d","u","r","i","n","g">>,
    <<"e","s","t","a","b","l","i","s","h","e","d">>,
    <<"f","o","u","n","d","e","d">>,
    <<"c","r","e","a","t","e","d">> >>

\* \b between s[i-1] and s[i]
WordBoundary(s, i) ==
    LET before == i - 1 >= 1 /\ i - 1 <= Len(s) /\ IsWordChar(s[i - 1])
        after == i >= 1 /\ i <= Len(s) /\ IsWordChar(s[i])
    IN before # after

\* the literal w matches s at position i, ignoring case
LiteralAt(s, i, w) ==
    /\ i + Len(w) - 1 <= Len(s)
    /\ \A j \in 1..Len(w) : Lower(s[i + j - 1]) = w[j]

\* \b(w)\b matches s at position i
FillerAt(s, i, w) ==
    /\ WordBoundary(s, i)
    /\ LiteralAt(s, i, w)
    /\ WordBoundary(s, i + Len(w))

\* length of the first alternative of the filler pattern that matches at i, or 0
FillerLenAt(s, i) ==
    LET hits == {k \in DOMAIN Fillers : FillerAt(s, i, Fillers[k])}
    IN IF hits = {} THEN 0
       ELSE Len(Fillers[CHOOSE k \in hits : \A m \in hits : k <= m])

RECURSIVE SubFillersFrom(_, _)
\* re.sub scanning s from position i: matches are removed, the rest is copied
SubFillersFrom(s, i) ==
    IF i > Len(s) THEN <<>>
    ELSE LET n == FillerLenAt(s, i)
         IN IF n > 0 THEN SubFillersFrom(s, i + n)
            ELSE <<s[i]>> \o SubFillersFrom(s, i + 1)

SubFillers(s) == SubFillersFrom(s, 1)

\* str.strip()
Strip(s) ==
    LET keep == {i \in 1..Len(s) : ~IsSpace(s[i])}
    IN IF keep = {} THEN <<>>
       ELSE LET lo == CHOOSE i \in keep : \A j \in keep : i <= j
                hi == CHOOSE i \in keep : \A j \in keep : i >= j
            IN SubSeq(s, lo, hi)

CleanDate(date_str_) == Strip(SubFillers(date_str_))

(***************************************************************************)
(* _normalize_date, lines 107-113: the five patterns.  A pattern is its    *)
(* digit groups, each the lengths \d{m,n} may take in greedy order, and    *)
(* the separator between the groups.                                       *)
(***************************************************************************)
PatternYMDDash == [id |-> "ymd-", groups |-> << <<4>>, <<2, 1>>, <<2, 1>> >>, sep |-> "-"]
PatternMDYSlash == [id |-> "mdy/", groups |-> << <<2, 1>>, <<2, 1>>, <<4>> >>, sep |-> "/"]
PatternYMDSlash == [id |-> "ymd/", groups |-> << <<4>>, <<2, 1>>, <<2, 1>> >>, sep |-> "/"]
PatternYMDash == [id |-> "ym-", groups |-> << <<4>>, <<2, 1>> >>, sep |-> "-"]
PatternY == [id |-> "y", groups |-> << <<4>> >>, sep |-> "-"]

patternsSlashFirst ==
    <<PatternMDYSlash, PatternYMDDash, PatternYMDSlash, PatternYMDash, PatternY>>

patterns == <<PatternYMDDash, PatternMDYSlash, PatternYMDSlash, PatternYMDash, PatternY>>

DigitsAt(s, i, n) ==
    /\ i + n - 1 <= Len(s)
    /\ \A j \in i..(i + n - 1) : IsDigit(s[j])

NoMatch == [ok |-> FALSE, g |-> <<>>]

RECURSIVE MatchGroups(_, _, _, _)
RECURSIVE TryLengths(_, _, _, _, _)
\* the groups k.. of pattern p match s at position i: the captured groups.
\* A group tries its lengths longest first and backtracks when the rest of
\* the pattern fails, as the re module does.
MatchGroups(p, s, i, k) == TryLengths(p, s, i, k, 1)

TryLengths(p, s, i, k, c) ==
    IF c > Len(p.groups[k]) THEN NoMatch
    ELSE LET n == p.groups[k][c]
             here == DigitsAt(s, i, n)
             last == k = Len(p.groups)
             rest == IF here /\ ~last /\ i + n <= Len(s) /\ s[i + n] = p.sep
                     THEN MatchGroups(p, s, i + n + 1, k + 1)
                     ELSE NoMatch
         IN IF here /\ last THEN [ok |-> TRUE, g |-> <<SubSeq(s, i, i + n - 1)>>]
            ELSE IF here /\ rest.ok
                 THEN [ok |-> TRUE, g |-> <<SubSeq(s, i, i + n - 1)>> \o rest.g]
                 ELSE TryLengths(p, s, i, k, c + 1)

\* re.search(pattern, s): the match at the leftmost position that has one
Search(p, s) ==
    LET at == {i \in 1..Len(s) : MatchGroups(p, s, i, 1).ok}
    IN IF at = {} THEN NoMatch
       ELSE MatchGroups(p, s, CHOOSE i \in at : \A j \in at : i <= j, 1)

\* str.zfill(2)
ZFill2(g) == IF Len(g) < 2 THEN <<"0">> \o g ELSE g

Dash == <<"-">>

\* lines 119-127: three groups
FormatThree(p, g) ==
    IF p.id = "mdy/"
    THEN g[3] \o Dash \o ZFill2(g[1]) \o Dash \o ZFill2(g[2])
    ELSE g[1] \o Dash \o ZFill2(g[2]) \o Dash \o ZFill2(g[3])

\* lines 128-131: two groups
FormatTwo(g) == g[1] \o Dash \o ZFill2(g[2]) \o <<"-", "0", "1">>

\* lines 132-135: one group
FormatOneMissingDay(g) == g[1] \o <<"-", "0", "1">>

FormatOne(g) == g[1] \o <<"-", "0", "1", "-", "0", "1">>

FormatMatch(p, g) ==
    IF Len(g) = 3 THEN FormatThree(p, g)
    ELSE IF Len(g) = 2 THEN FormatTwo(g)
    ELSE FormatOne(g)

\* line 137: what is returned when no pattern matches
FallbackCleaned(date_str_, clean_date) == clean_date

Fallback(date_str_, clean_date) == date_str_

RECURSIVE TryPatterns(_, _, _, _)
\* lines 115-137: the loop over the patterns ps, from the k-th on
TryPatterns(ps, k, date_str_, clean_date) ==
    IF k > Len(ps) THEN Fallback(date_str_, clean_date)
    ELSE LET m == Search(ps[k], clean_date)
         IN IF m.ok THEN FormatMatch(ps[k], m.g)
            ELSE TryPatterns(ps, k + 1, date_str_, clean_date)

\* _normalize_date on a str argument
NormalizeStr(date_str_) ==
    IF date_str_ = <<>> THEN <<>>
    ELSE TryPatterns(patterns, 1, date_str_, CleanDate(date_str_))

(***************************************************************************)
(* Loosely typed Python values.                                            *)
(***************************************************************************)
Missing == [k |-> "missing", v |-> <<>>]
None == [k |-> "none", v |-> <<>>]
Str(s) == [k |-> "str", v |-> s]
List(items) == [k |-> "list", v |-> items]
Num(digits) == [k |-> "num", v |-> digits]
Dict(keys) == [k |-> "dict", v |-> keys]

\* bool(x)
Truthy(x) ==
    CASE x.k \in {"none", "missing"} -> FALSE
      [] x.k = "num" -> x.v # <<"0">>
      [] OTHER -> x.v # <<>>

\* dict.get(key, default) on the value stored under key
Get(field, default) == IF field.k = "missing" THEN default ELSE field

\* _normalize_date on any argument: line 100 for a falsy one, line 104
\* raises TypeError on a truthy argument that is not a str
NormalizeDate(x) ==
    IF ~Truthy(x) THEN [exc |-> "none", val |-> Str(<<>>)]
    ELSE IF x.k = "str" THEN [exc |-> "none", val |-> Str(NormalizeStr(x.v))]
    ELSE [exc |-> "TypeError", val |-> Str(<<>>)]

\* ", ".join(x): the joined pieces, or TypeError when x is not iterable
JoinFounders(x) ==
    IF x.k \in {"list", "str", "dict"}
    THEN [exc |-> "none",
          val |-> [i \in 1..(IF x.v = <<>> THEN 0 ELSE 2 * Len(x.v) - 1) |->
                      IF i % 2 = 1 THEN x.v[(i + 1) \div 2] ELSE ", "]]
    ELSE [exc |-> "TypeError", val |-> <<>>]

(***************************************************************************)
(* Elements of a `companies` sequence: a mapping with its three keys, or   *)
(* something that is not a mapping.                                        *)
(***************************************************************************)
Company(name, date, founders) ==
    [k |-> "dict", company_name |-> name, founding_date |-> date, founders |-> founders]

NotAMapping(kind) ==
    [k |-> kind, company_name |-> Missing, founding_date |-> Missing, founders |-> Missing]

\* CompanyInfo(company_name, founding_date, founders), lines 21-26
CompanyInfo(name, date, founders) ==
    [company_name |-> name, founding_date |-> date, founders |-> founders]

\* lines 207-211: the record built from one element; .get on an element that
\* is not a dict raises AttributeError
BuildCompany(company_data) ==
    IF company_data.k # "dict"
    THEN [exc |-> "AttributeError", rec |-> CompanyInfo(Missing, Missing, Missing)]
    ELSE LET d == NormalizeDate(Get(company_data.founding_date, Str(<<>>)))
         IN [exc |-> d.exc,
             rec |-> CompanyInfo(Get(company_data.company_name, Str(<<>>)),
                                 d.val,
                                 Get(company_data.founders, List(<<>>)))]

(***************************************************************************)
(* Outcomes of extraction_chain.invoke: k is "raise", or the type of the   *)
(* returned value; for a dict, ck is the type of the value under           *)
(* "companies" ("missing" without the key), items its elements when it is  *)
(* a list and keys its characters (str) or keys (dict).                    *)
(***************************************************************************)
Raises == [k |-> "raise", ck |-> "missing", items |-> <<>>, keys |-> <<>>]
Returns(kind) == [k |-> kind, ck |-> "missing", items |-> <<>>, keys |-> <<>>]
WithCompanies(ckind, items, keys) ==
    [k |-> "dict", ck |-> ckind, items |-> items, keys |-> keys]

\* line 206: `for company_data in result["companies"]`
IterCompanies(result) ==
    CASE result.ck = "list" -> [exc |-> "none", items |-> result.items]
      [] result.ck \in {"str", "dict"} ->
            [exc |-> "none",
             items |-> [i \in 1..Len(result.keys) |-> NotAMapping("str")]]
      [] OTHER -> [exc |-> "TypeError", items |-> <<>>]

RECURSIVE AppendCompanies(_, _, _)
\* lines 206-212 from the i-th element on: the accumulator, and the
\* exception that left the loop
AppendCompanies(items, i, acc) ==
    IF i > Len(items) THEN [exc |-> "none", acc |-> acc]
    ELSE LET b == BuildCompany(items[i])
         IN IF b.exc # "none" THEN [exc |-> b.exc, acc |-> acc]
            ELSE AppendCompanies(items, i + 1, Append(acc, b.rec))

\* lines 203-212, the body of the try for one paragraph
TryParagraph(result, acc) ==
    IF result.k = "raise" THEN [exc |-> "ServiceError", acc |-> acc]
    ELSE IF result.k = "dict" /\ result.ck # "missing"
         THEN LET it == IterCompanies(result)
              IN IF it.exc # "none" THEN [exc |-> it.exc, acc |-> acc]
                 ELSE AppendCompanies(it.items, 1, acc)
         ELSE [exc |-> "none", acc |-> acc]

(***************************************************************************)
(* Line 199: paragraphs = [p.strip() for p in text.split('\n\n')           *)
(*                         if p.strip()]                                   *)
(***************************************************************************)
RECURSIVE SplitFrom(_, _, _)
\* str.split('\n\n') from position i, cur the piece read so far
SplitFrom(s, i, cur) ==
    IF i > Len(s) THEN <<cur>>
    ELSE IF s[i] = "\n" /\ i + 1 <= Len(s) /\ s[i + 1] = "\n"
         THEN <<cur>> \o SplitFrom(s, i + 2, <<>>)
         ELSE SplitFrom(s, i + 1, Append(cur, s[i]))

KeepEvery(p) == TRUE

\* the filter `if p.strip()`
KeepParagraph(p) == Strip(p) # <<>>

SplitParagraphs(s) ==
    LET pieces == SelectSeq(SplitFrom(s, 1, <<>>), KeepParagraph)
    IN [i \in 1..Len(pieces) |-> Strip(pieces[i])]

(***************************************************************************)
(* The CSV file and the two export operations.                             *)
(***************************************************************************)
NoFile == [exists |-> FALSE, rows |-> <<>>]
File(rows) == [exists |-> TRUE, rows |-> rows]
Header == <<Str(<<"company_name">>), Str(<<"founding_date">>), Str(<<"founders">>)>>

\* outcomes of the file system: open() fails, the first write fails, or
\* every call succeeds
IoOutcomes == {"ok", "open_error", "write_error"}

RECURSIVE WriteCompanies(_, _, _)
\* lines 228-233 from the i-th record on
WriteCompanies(companies, i, rows) ==
    IF i > Len(companies) THEN [exc |-> "none", rows |-> rows]
    ELSE LET j == JoinFounders(companies[i].founders)
         IN IF j.exc # "none" THEN [exc |-> j.exc, rows |-> rows]
            ELSE WriteCompanies(companies, i + 1,
                    Append(rows, <<companies[i].company_name,
                                   companies[i].founding_date,
                                   Str(j.val)>>))

\* _save_companies_to_csv, lines 221-233: the file it leaves and the
\* exception it raises; it has no try and returns None
SaveCompaniesToCsv(companies, io, old) ==
    IF io = "open_error" THEN [exc |-> "OSError", file |-> old]
    ELSE IF io = "write_error" THEN [exc |-> "OSError", file |-> File(<<>>)]
    ELSE LET w == WriteCompanies(companies, 1, <<Header>>)
         IN [exc |-> w.exc, file |-> File(w.rows)]

RECURSIVE WriteDicts(_, _, _)
\* save_to_csv, lines 165-173 from the i-th element on
WriteDicts(companies_data, i, rows) ==
    IF i > Len(companies_data) THEN [exc |-> "none", rows |-> rows]
    ELSE LET company == companies_data[i]
             j == JoinFounders(Get(company.founders, List(<<>>)))
         IN IF company.k # "dict" THEN [exc |-> "AttributeError", rows |-> rows]
            ELSE IF j.exc # "none" THEN [exc |-> j.exc, rows |-> rows]
            ELSE WriteDicts(companies_data, i + 1,
                    Append(rows, <<Get(company.company_name, Str(<<>>)),
                                   Get(company.founding_date, Str(<<>>)),
                                   Str(j.val)>>))

Success(n) == [kind |-> "success", count |-> n, err |-> "none"]
Failure(e) == [kind |-> "failure", count |-> 0, err |-> e]
ReturnedNone == [kind |-> "none", count |-> 0, err |-> "none"]
Raised(e) == [kind |-> "raised", count |-> 0, err |-> e]
Pending == [kind |-> "pending", count |-> 0, err |-> "none"]

\* save_to_csv, lines 157-177: the file it leaves and the status it returns
SaveToCsv(companies_data, io, old) ==
    IF io = "open_error" THEN [status |-> Failure("OSError"), file |-> old]
    ELSE IF io = "write_error"
         THEN [status |-> Failure("OSError"), file |-> File(<<>>)]
    ELSE LET w == WriteDicts(companies_data, 1, <<Header>>)
         IN [status |-> IF w.exc = "none" THEN Success(Len(companies_data))
                        ELSE Failure(w.exc),
             file |-> File(w.rows)]

(***************************************************************************)
(* Inputs.                                                                 *)
(***************************************************************************)
SeqsUpTo(S, n) == UNION {[1..m -> S] : m \in 0..n}

RECURSIVE Flatten(_)
Flatten(ss) == IF ss = <<>> THEN <<>> ELSE Head(ss) \o Flatten(Tail(ss))

\* pieces of date strings: years, month and day parts with their separators,
\* blanks, filler words in both cases, and a word that is no filler
Segments == {
    <<"1","9","9","9">>, <<"2","0","1","0">>,
    <<"-","3">>, <<"-","1","2">>, <<"-","1","2","-","3">>,
    <<"/","3">>, <<"/","3","/">>,
    <<"3","/">>, <<"1","2","/">>, <<"3","/","1","2","/">>,
    <<" ">>, <<"i","n">>, <<"O","n">>, <<"x">> }

DateInputs == {Flatten(ss) : ss \in SeqsUpTo(Segments, MaxSegments)}

TextAlphabet == {"a", "\n"}
Texts == SeqsUpTo(TextAlphabet, MaxTextLen)

NameA == Str(<<"A">>)

\* a complete mapping, a mapping with only a date, a mapping whose founders
\* are null, and an element that is a string
Elements == {
    Company(NameA, Str(<<"i","n"," ","1","9","9","9">>), List(<<"x", "y">>)),
    Company(Missing, Str(<<"3","/","1","2","/","1","9","9","9">>), Missing),
    Company(NameA, Missing, None),
    NotAMapping("str") }

ElementSeqs == SeqsUpTo(Elements, MaxCompanies)

Results ==
    {Raises, Returns("list"), Returns("dict"),
     WithCompanies("none", <<>>, <<>>), WithCompanies("num", <<>>, <<>>),
     WithCompanies("str", <<>>, <<"a", "b">>), WithCompanies("dict", <<>>, <<"k">>)}
    \cup {WithCompanies("list", items, <<>>) : items \in ElementSeqs}

\* values met under the key `founders`
FoundersValues ==
    {List(<<"x", "y">>), List(<<>>), None, Str(<<"x", "y">>), Num(<<"5">>),
     Dict(<<"k">>)}

CanonicalDate == Str(<<"1","9","9","9","-","0","1","-","0","1">>)

\* arguments of _save_companies_to_csv: CompanyInfo records
Records == {CompanyInfo(NameA, CanonicalDate, f) : f \in FoundersValues}

\* arguments of save_to_csv: elements of companies_data
Dicts ==
    {Company(NameA, CanonicalDate, f) : f \in FoundersValues \cup {Missing}}
    \cup {NotAMapping("str")}

(***************************************************************************)
(* process_text_direct.                                                    *)
(***************************************************************************)
PipelineIdle ==
    /\ text = <<>> /\ pc = "idle" /\ paragraphs = <<>> /\ idx = 0
    /\ calls = <<>> /\ results = <<>> /\ all_companies = <<>> /\ errlog = <<>>
    /\ csvfile = NoFile /\ ret = <<>> /\ exc = "none"

DateIdle == dpc = "idle" /\ date_str = <<>> /\ out1 = <<>> /\ out2 = <<>>

ExportIdle ==
    xop = "none" /\ xdata = <<>> /\ xio = "ok" /\ xstatus = ReturnedNone /\ xfile = NoFile

Init ==
    /\ text \in Texts
    /\ pc = "start" /\ paragraphs = <<>> /\ idx = 0
    /\ calls = <<>> /\ results = <<>> /\ all_companies = <<>> /\ errlog = <<>>
    /\ csvfile = NoFile /\ ret = <<>> /\ exc = "none"
    /\ DateIdle /\ ExportIdle

\* lines 196-199
Start ==
    /\ pc = "start"
    /\ all_companies' = <<>>
    /\ paragraphs' = SplitParagraphs(text)
    /\ idx' = 1
    /\ pc' = "loop"
    /\ UNCHANGED <<text, calls, results, errlog, csvfile, ret, exc, dvars, xvars>>

RECURSIVE TotalItems(_)
\* number of elements the service has returned in rs
TotalItems(rs) == IF rs = <<>> THEN 0 ELSE Len(Head(rs).items) + TotalItems(Tail(rs))

\* line 203: extraction_chain.invoke(paragraph), with its outcome r
Invoke(r) ==
    /\ pc = "loop"
    /\ idx <= Len(paragraphs)
    /\ TotalItems(results) + Len(r.items) <= MaxCompanies
    /\ calls' = Append(calls, paragraphs[idx])
    /\ results' = Append(results, r)
    /\ pc' = "handle"
    /\ UNCHANGED <<text, paragraphs, idx, all_companies, errlog, csvfile, ret, exc,
                   dvars, xvars>>

AfterErrorBreak(i, n) == n + 1

\* lines 213-215: `continue` goes on with the next paragraph
AfterError(i, n) == i + 1

CaughtServiceErrorOnly(e) == e = "ServiceError"

\* line 213: `except Exception` catches every exception of the try body
Caught(e) == TRUE

\* lines 205-215: the result of the call is handled, or the exception logged
Handle ==
    /\ pc = "handle"
    /\ LET t == TryParagraph(results[Len(results)], all_companies)
       IN /\ all_companies' = t.acc
          /\ IF t.exc = "none"
             THEN /\ idx' = idx + 1
                  /\ pc' = "loop"
                  /\ UNCHANGED <<errlog, exc>>
             ELSE IF Caught(t.exc)
             THEN /\ errlog' = Append(errlog, t.exc)
                  /\ idx' = AfterError(idx, Len(paragraphs))
                  /\ pc' = "loop"
                  /\ exc' = exc
             ELSE /\ pc' = "raised"
                  /\ exc' = t.exc
                  /\ UNCHANGED <<errlog, idx>>
    /\ UNCHANGED <<text, paragraphs, calls, results, csvfile, ret, dvars, xvars>>

\* lines 218-219: the file is written and the list returned
Save(io) ==
    /\ pc = "loop"
    /\ idx > Len(paragraphs)
    /\ LET w == SaveCompaniesToCsv(all_companies, io, csvfile)
       IN /\ csvfile' = w.file
          /\ IF w.exc = "none"
             THEN pc' = "returned" /\ ret' = all_companies /\ exc' = exc
             ELSE pc' = "raised" /\ ret' = ret /\ exc' = w.exc
    /\ UNCHANGED <<text, paragraphs, idx, calls, results, all_companies, errlog,
                   dvars, xvars>>

Next ==
    \/ Start
    \/ \E r \in Results : Invoke(r)
    \/ Handle
    \/ \E io \in IoOutcomes : Save(io)

Spec == Init /\ [][Next]_vars

(***************************************************************************)
(* _normalize_date applied to a string, and to its own output.             *)
(***************************************************************************)
InitDate ==
    /\ date_str \in DateInputs
    /\ dpc = "input" /\ out1 = <<>> /\ out2 = <<>>
    /\ PipelineIdle /\ ExportIdle

Normalize ==
    /\ dpc = "input"
    /\ out1' = NormalizeStr(date_str)
    /\ dpc' = "normalized"
    /\ UNCHANGED <<date_str, out2, pvars, xvars>>

Renormalize ==
    /\ dpc = "normalized"
    /\ out2' = NormalizeStr(out1)
    /\ dpc' = "renormalized"
    /\ UNCHANGED <<date_str, out1, pvars, xvars>>

NextDate == Normalize \/ Renormalize

SpecDate == InitDate /\ [][NextDate]_vars

(***************************************************************************)
(* The export operations, each called once on the data xdata with the file *)
(* system outcome xio.                                                     *)
(***************************************************************************)
InitExport ==
    /\ \/ xop = "save_to_csv" /\ xdata \in SeqsUpTo(Dicts, MaxCompanies)
       \/ xop = "_save_companies_to_csv" /\ xdata \in SeqsUpTo(Records, MaxCompanies)
    /\ xio \in IoOutcomes
    /\ xstatus = Pending
    /\ xfile = NoFile
    /\ PipelineIdle /\ DateIdle

\* the tool save_to_csv
CallSaveToCsv ==
    /\ xop = "save_to_csv" /\ xstatus = Pending
    /\ LET w == SaveToCsv(xdata, xio, xfile)
       IN xstatus' = w.status /\ xfile' = w.file
    /\ UNCHANGED <<xop, xdata, xio, pvars, dvars>>

\* _save_companies_to_csv: its caller sees None, or the exception
CallSaveCompaniesToCsv ==
    /\ xop = "_save_companies_to_csv" /\ xstatus = Pending
    /\ LET w == SaveCompaniesToCsv(xdata, xio, xfile)
       IN /\ xstatus' = IF w.exc = "none" THEN ReturnedNone ELSE Raised(w.exc)
          /\ xfile' = w.file
    /\ UNCHANGED <<xop, xdata, xio, pvars, dvars>>

NextExport == CallSaveToCsv \/ CallSaveCompaniesToCsv

SpecExport == InitExport /\ [][NextExport]_vars

(***************************************************************************)
(* What the claims speak of.                                               *)
(***************************************************************************)
\* an element as the extraction prompt describes it: a mapping whose keys,
\* when present, hold a string, a string and a list of names
WellFormedElement(e) ==
    /\ e.k = "dict"
    /\ e.company_name.k \in {"str", "missing"}
    /\ e.founding_date.k \in {"str", "missing"}
    /\ e.founders.k \in {"list", "missing"}

WellFormed(r) ==
    /\ r.k = "dict" /\ r.ck = "list"
    /\ \A i \in DOMAIN r.items : WellFormedElement(r.items[i])

\* the record a well-formed element stands for
ExpectedRecord(e) ==
    CompanyInfo(IF e.company_name.k = "missing" THEN Str(<<>>) ELSE e.company_name,
                IF e.founding_date.k = "missing" THEN Str(<<>>)
                ELSE Str(NormalizeStr(e.founding_date.v)),
                IF e.founders.k = "missing" THEN List(<<>>) ELSE e.founders)

\* the records of a paragraph whose call returned a well-formed result
Contribution(r) ==
    IF WellFormed(r) THEN [i \in DOMAIN r.items |-> ExpectedRecord(r.items[i])]
    ELSE <<>>

RECURSIVE ExpectedConcat(_)
ExpectedConcat(rs) ==
    IF rs = <<>> THEN <<>> ELSE Contribution(Head(rs)) \o ExpectedConcat(Tail(rs))

Finished == pc \in {"returned", "raised"}

\* C1: when every extraction call either raises or returns a well-formed
\* result, every paragraph gets its call, the accumulator and the returned
\* sequence are the concatenation, in paragraph order and element order, of
\* the records of the calls that succeeded (nothing merged, sorted or
\* dropped), and the only exception that can reach the caller is the file
\* system's, never the one of a failed call.
PerParagraphIsolation ==
    (Finished /\ \A k \in DOMAIN results : results[k] = Raises \/ WellFormed(results[k]))
    => /\ Len(results) = Len(paragraphs)
       /\ all_companies = ExpectedConcat(results)
       /\ pc = "returned" => ret = ExpectedConcat(results)
       /\ pc = "raised" => exc = "OSError"

\* the first call fails, the second succeeds, and the run returns the
\* second paragraph's two records
PerParagraphIsolationWitness ==
    /\ pc = "returned"
    /\ Len(results) = 2
    /\ results[1] = Raises
    /\ WellFormed(results[2])
    /\ Len(ret) = 2
    /\ ret[1] # ret[2]

\* C2: process_text_direct never ends by raising to its caller.
PipelineNeverRaises == pc # "raised"

\* C3: an export operation ends with a success status that counts the
\* records it was given or with a failure status that carries the error; an
\* I/O failure ends with the failure status and is not propagated.
ExportNeverRaises ==
    xstatus # Pending
    => /\ \/ xstatus.kind = "success" /\ xstatus.count = Len(xdata)
          \/ xstatus.kind = "failure" /\ xstatus.err # "none"
       /\ xio # "ok" => xstatus.kind = "failure" /\ xstatus.err = "OSError"

\* a result whose elements are mappings as the prompt describes them, or
\* not mappings at all
MappingsAndOthers(r) ==
    /\ r.k = "dict" /\ r.ck = "list"
    /\ \A i \in DOMAIN r.items : r.items[i].k = "dict" => WellFormedElement(r.items[i])

IsMapping(e) == e.k = "dict"

RECURSIVE ExpectedSkipping(_)
\* the records of the mapping-shaped elements of the results rs
ExpectedSkipping(rs) ==
    IF rs = <<>> THEN <<>>
    ELSE LET kept == SelectSeq(Head(rs).items, IsMapping)
         IN [i \in DOMAIN kept |-> ExpectedRecord(kept[i])] \o ExpectedSkipping(Tail(rs))

\* C4: elements that are not mappings are skipped and every mapping-shaped
\* element, before or after one, yields its record.
MalformedEntrySkipped ==
    (pc \in {"loop", "returned", "raised"}
        /\ \A k \in DOMAIN results : MappingsAndOthers(results[k]))
    => all_companies = ExpectedSkipping(results)

\* a result that is not a mapping, has no `companies`, or whose `companies`
\* is not a sequence or is the empty sequence
Malformed(r) ==
    \/ r.k \notin {"raise", "dict"}
    \/ r.k = "dict" /\ r.ck # "list"
    \/ r.k = "dict" /\ r.ck = "list" /\ r.items = <<>>

\* C5: a malformed result adds no record, no error of it reaches the
\* caller, the loop goes on with the next paragraph, and the records of the
\* paragraphs before and after it are those of their own results.
MalformedResultIsEmpty ==
    (pc \in {"loop", "returned", "raised"}
        /\ \A k \in DOMAIN results : Malformed(results[k]) \/ WellFormed(results[k]))
    => /\ all_companies = ExpectedConcat(results)
       /\ idx = Len(results) + 1
       /\ pc = "returned" => ret = all_companies
       /\ pc = "raised" => exc = "OSError"

\* a malformed result between two paragraphs that yield records
MalformedResultIsEmptyWitness ==
    /\ pc = "returned"
    /\ Len(results) = 2
    /\ \E k \in {1, 2} :
          /\ Malformed(results[k]) /\ results[k].ck \in {"none", "num", "str", "dict"}
          /\ WellFormed(results[3 - k]) /\ results[3 - k].items # <<>>
    /\ ret # <<>>

\* C6: every record of the accumulator has a sequence-valued founders field.
FoundersAlwaysSequence ==
    \A i \in DOMAIN all_companies : all_companies[i].founders.k = "list"

\* characters that are not white space
RECURSIVE NonSpace(_)
NonSpace(s) ==
    IF s = <<>> THEN <<>>
    ELSE (IF IsSpace(Head(s)) THEN <<>> ELSE <<Head(s)>>) \o NonSpace(Tail(s))

IsPrefix(a, b) == Len(a) <= Len(b) /\ SubSeq(b, 1, Len(a)) = a

\* p is a trimmed non-empty paragraph: no blank line inside, no white space
\* at either end
IsParagraph(p) ==
    /\ p # <<>>
    /\ ~IsSpace(p[1]) /\ ~IsSpace(p[Len(p)])
    /\ \A i \in 1..(Len(p) - 1) : ~(p[i] = "\n" /\ p[i + 1] = "\n")

\* C10: the service is called once per non-empty trimmed paragraph, in
\* document order and one call at a time: a call is made only when every
\* earlier paragraph has been handled, whatever its outcome; no text is
\* called twice or left out; the file is written only after the last
\* paragraph.
InvocationDiscipline ==
    /\ \A k \in DOMAIN calls : IsParagraph(calls[k])
    /\ IsPrefix(calls, paragraphs)
    /\ IsPrefix(NonSpace(Flatten(calls)), NonSpace(text))
    /\ Len(results) = Len(calls)
    /\ pc = "handle" => idx = Len(calls)
    /\ pc = "loop" => idx = Len(calls) + 1
    /\ Finished => /\ Len(calls) = Len(paragraphs)
                   /\ NonSpace(Flatten(calls)) = NonSpace(text)
    /\ csvfile.exists => Finished

\* the second paragraph is called although the first one failed, and the
\* file is written after both
InvocationDisciplineWitness ==
    /\ pc = "returned"
    /\ Len(calls) = 2
    /\ calls[1] # calls[2]
    /\ Len(errlog) >= 1
    /\ csvfile.exists

(***************************************************************************)
(* The date patterns, stated as shapes: the canonical dates of all the     *)
(* places of c where a shape occurs.                                       *)
(***************************************************************************)
AllDigits(c, a, b) == a >= 1 /\ b <= Len(c) /\ \A j \in a..b : c[j] \in Digit

CharIs(c, i, ch) == i >= 1 /\ i <= Len(c) /\ c[i] = ch

Pad2(g) == IF Len(g) = 1 THEN <<"0", g[1]>> ELSE g

Canonical(y, m, d) == y \o <<"-">> \o Pad2(m) \o <<"-">> \o Pad2(d)

OneOrTwo == {1, 2}

\* YYYY sep M(M) sep D(D)
YearFirstAt(c, sep) ==
    {t \in (1..Len(c)) \X OneOrTwo \X OneOrTwo :
        /\ AllDigits(c, t[1], t[1] + 3)
        /\ CharIs(c, t[1] + 4, sep)
        /\ AllDigits(c, t[1] + 5, t[1] + 4 + t[2])
        /\ CharIs(c, t[1] + 5 + t[2], sep)
        /\ AllDigits(c, t[1] + 6 + t[2], t[1] + 5 + t[2] + t[3])}

YearFirstDates(c, sep) ==
    {Canonical(SubSeq(c, t[1], t[1] + 3),
               SubSeq(c, t[1] + 5, t[1] + 4 + t[2]),
               SubSeq(c, t[1] + 6 + t[2], t[1] + 5 + t[2] + t[3])) :
        t \in YearFirstAt(c, sep)}

\* M(M)/D(D)/YYYY
YearLastAt(c) ==
    {t \in (1..Len(c)) \X OneOrTwo \X OneOrTwo :
        /\ AllDigits(c, t[1], t[1] + t[2] - 1)
        /\ CharIs(c, t[1] + t[2], "/")
        /\ AllDigits(c, t[1] + t[2] + 1, t[1] + t[2] + t[3])
        /\ CharIs(c, t[1] + t[2] + t[3] + 1, "/")
        /\ AllDigits(c, t[1] + t[2] + t[3] + 2, t[1] + t[2] + t[3] + 5)}

YearLastDates(c) ==
    {Canonical(SubSeq(c, t[1] + t[2] + t[3] + 2, t[1] + t[2] + t[3] + 5),
               SubSeq(c, t[1], t[1] + t[2] - 1),
               SubSeq(c, t[1] + t[2] + 1, t[1] + t[2] + t[3])) :
        t \in YearLastAt(c)}

\* YYYY-M(M)
YearMonthDates(c) ==
    {Canonical(SubSeq(c, t[1], t[1] + 3), SubSeq(c, t[1] + 5, t[1] + 4 + t[2]),
               <<"0", "1">>) :
        t \in {u \in (1..Len(c)) \X OneOrTwo :
                  /\ AllDigits(c, u[1], u[1] + 3)
                  /\ CharIs(c, u[1] + 4, "-")
                  /\ AllDigits(c, u[1] + 5, u[1] + 4 + u[2])}}

\* YYYY
YearDates(c) ==
    {Canonical(SubSeq(c, i, i + 3), <<"0", "1">>, <<"0", "1">>) :
        i \in {j \in 1..Len(c) : AllDigits(c, j, j + 3)}}

NoPattern(c) ==
    /\ YearFirstDates(c, "-") = {} /\ YearLastDates(c) = {}
    /\ YearFirstDates(c, "/") = {} /\ YearMonthDates(c) = {} /\ YearDates(c) = {}

\* the string is, from end to end, Y-M-D
WholeYMD(s) == {t \in YearFirstAt(s, "-") : t[1] = 1 /\ 5 + t[2] + t[3] + 1 = Len(s)}

\* the string is, from end to end, M/D/Y
WholeMDY(s) == {t \in YearLastAt(s) : t[1] = 1 /\ t[2] + t[3] + 6 = Len(s)}

Normalized == dpc \in {"normalized", "renormalized"}

\* C7: for a non-empty input the result is the canonical date of an
\* occurrence of the first shape, in the order Y-M-D, M/D/Y, Y/M/D, Y-M, Y,
\* that occurs anywhere in the cleaned string, wherever the later shapes
\* occur; month and day are padded to two digits, a missing day or month is
\* 01; the inputs "M/D/Y" and "Y-M-D" both give Y-MM-DD.
PatternPriority ==
    (Normalized /\ date_str # <<>>)
    => LET c == CleanDate(date_str)
       IN /\ IF YearFirstDates(c, "-") # {} THEN out1 \in YearFirstDates(c, "-")
             ELSE IF YearLastDates(c) # {} THEN out1 \in YearLastDates(c)
             ELSE IF YearFirstDates(c, "/") # {} THEN out1 \in YearFirstDates(c, "/")
             ELSE IF YearMonthDates(c) # {} THEN out1 \in YearMonthDates(c)
             ELSE IF YearDates(c) # {} THEN out1 \in YearDates(c)
             ELSE TRUE
          /\ \A t \in WholeYMD(date_str) :
                out1 = Canonical(SubSeq(date_str, 1, 4),
                                 SubSeq(date_str, 6, 5 + t[2]),
                                 SubSeq(date_str, 7 + t[2], Len(date_str)))
          /\ \A t \in WholeMDY(date_str) :
                out1 = Canonical(SubSeq(date_str, t[2] + t[3] + 3, Len(date_str)),
                                 SubSeq(date_str, 1, t[2]),
                                 SubSeq(date_str, t[2] + 2, t[2] + t[3] + 1))

\* a slash date comes first in the string and a dash date later: the dash
\* date is the result
PatternPriorityWitness ==
    /\ Normalized
    /\ LET c == CleanDate(date_str)
       IN /\ YearFirstAt(c, "-") # {} /\ YearLastAt(c) # {}
          /\ \A a \in YearFirstAt(c, "-") : \A b \in YearLastAt(c) : b[1] < a[1]
          /\ out1 \in YearFirstDates(c, "-")
          /\ out1 \notin YearLastDates(c)

\* C8 as stated: when no pattern matches the cleaned string, the result is
\* the cleaned string.
DateMissReturnsCleaned ==
    (Normalized /\ date_str # <<>> /\ NoPattern(CleanDate(date_str)))
    => out1 = CleanDate(date_str)

\* C8 as amended: when no pattern matches the cleaned string, the result is
\* the input itself, fillers and surrounding white space included, which is
\* not the empty string.
DateMissReturnsInput ==
    (Normalized /\ date_str # <<>> /\ NoPattern(CleanDate(date_str)))
    => out1 = date_str /\ out1 # <<>>

\* an input with a filler and no date: it comes back with its filler
DateMissReturnsInputWitness ==
    /\ Normalized
    /\ NoPattern(CleanDate(date_str))
    /\ CleanDate(date_str) # <<>>
    /\ CleanDate(date_str) # date_str
    /\ out1 = date_str

\* C9: normalising the output again changes nothing, and the empty input
\* gives the empty string.
Idempotent ==
    /\ dpc = "renormalized" => out2 = out1
    /\ (Normalized /\ date_str = <<>>) => out1 = <<>>

\* an input that was parsed into another string, normalised again
IdempotentWitness ==
    /\ dpc = "renormalized"
    /\ out1 # date_str
    /\ ~NoPattern(CleanDate(date_str))
    /\ out2 = out1

====
